---- MODULE Spec2Model ----
(***************************************************************************)
(* Model of flickr-backup: flickr/utils.py (normalize, find_duplicates)    *)
(* and flickr/handlers.py (FlickrAlbums, FlickrAlbumsHandler).             *)
(*                                                                         *)
(* Strings are sequences of one-character tokens, e.g. "_1_" is            *)
(* <<"_", "1", "_">>.  Two tokens stand for non-ASCII code points:         *)
(* "eacute" (U+00E9) and "acute" (U+0301, combining acute accent).         *)
(***************************************************************************)
EXTENDS Integers, Sequences, FiniteSets, TLC

VARIABLES
    pc,          \* position of the run: Load, PerAlbumLoop, Duplicates, Albumless, Summary, Done
    error,       \* exception that aborted the run, "none" while it is running
    run,         \* number of the current invocation of the tool
    args,        \* command line: [output_dir |-> "none" | "out"]
    manifest,    \* albums.json in json_dir: [status, albums]
    fs,          \* filesystem: [photos, out, outExists]
    before,      \* the filesystem as it was when the current run started
    albums,      \* self.albums, the insertion-ordered dict of FlickrAlbums
    output_dir,  \* self.output_dir: "unset", "photos" or "out"
    idx,         \* position of the iteration over self.albums.values()
    pics_sets,   \* make(): list of matched-filename sets, one per iteration
    log,         \* logger.info lines of _create_album in the current run
    summary,     \* the counts of the final logger.info lines
    normCall,    \* a call of normalize: [value, allow_unicode, done, result]
    matchCall    \* a call of _get_pics_filenames: [dir_content, pic_ids, done, result]

vars == <<pc, error, run, args, manifest, fs, before, albums, output_dir, idx,
          pics_sets, log, summary, normCall, matchCall>>

runVars == <<pc, error, run, args, manifest, fs, before, albums, output_dir, idx,
             pics_sets, log, summary>>

(***************************************************************************)
(* Bounds                                                                  *)
(***************************************************************************)
MaxAlbums == 2
MaxRuns == 2
MaxTitleLen == 3
MaxListing == 2
MaxIds == 2

(***************************************************************************)
(* Characters                                                              *)
(***************************************************************************)
\* The tokens in code point order; sorted() compares strings by code point.
CodePoints ==
    <<"\n", " ", "!", "-", ".", "/", "0", "1", "2", "A", "M", "P", "T", "\\", "_",
      "a", "b", "c", "d", "e", "i", "j", "l", "m", "n", "o", "p", "q", "r", "s",
      "t", "u", "x", "y", "|", "eacute", "acute">>

Code(c) == CHOOSE i \in 1..Len(CodePoints) : CodePoints[i] = c

RECURSIVE LexLess(_, _)
LexLess(s, t) ==
    IF t = <<>> THEN FALSE
    ELSE IF s = <<>> THEN TRUE
    ELSE IF Head(s) = Head(t) THEN LexLess(Tail(s), Tail(t))
    ELSE Code(Head(s)) < Code(Head(t))

RECURSIVE sorted(_)
sorted(S) ==
    IF S = {} THEN <<>>
    ELSE LET m == CHOOSE x \in S : \A y \in S \ {x} : LexLess(x, y)
         IN  <<m>> \o sorted(S \ {m})

RECURSIVE SeqsUpTo(_, _)
SeqsUpTo(S, n) ==
    IF n = 0 THEN {<<>>}
    ELSE LET shorter == SeqsUpTo(S, n - 1)
         IN  shorter \cup {Append(s, x) : s \in {t \in shorter : Len(t) = n - 1}, x \in S}

Range(s) == {s[i] : i \in 1..Len(s)}

NoRepeat(s) == \A i, j \in 1..Len(s) : i # j => s[i] # s[j]

(***************************************************************************)
(* flickr/utils.py: normalize                                              *)
(***************************************************************************)
Whitespace == {" ", "\n"}
AsciiWord == {"0", "1", "2", "A", "M", "P", "T", "_", "a", "b", "c", "d", "e", "i", "j",
              "l", "m", "n", "o", "p", "q", "r", "s", "t", "u", "x", "y"}
IsAscii(c) == c \notin {"eacute", "acute"}
\* \w of a str pattern: the ASCII word characters and every Unicode alphanumeric
IsWord(c) == c \in AsciiWord \/ c = "eacute"

RECURSIVE NFKD(_)
NFKD(s) ==
    IF s = <<>> THEN <<>>
    ELSE (IF Head(s) = "eacute" THEN <<"e", "acute">> ELSE <<Head(s)>>) \o NFKD(Tail(s))

RECURSIVE Compose(_)
Compose(s) ==
    IF Len(s) < 2 THEN s
    ELSE IF s[1] = "e" /\ s[2] = "acute" THEN <<"eacute">> \o Compose(Tail(Tail(s)))
    ELSE <<Head(s)>> \o Compose(Tail(s))

NFKC(s) == Compose(NFKD(s))

\* .encode("ascii", "ignore").decode("ascii")
AsciiIgnore(s) == SelectSeq(s, IsAscii)

KeptByFirstSub(c) == IsWord(c) \/ c \in Whitespace \/ c \in {"/", "\\", "-"}

RECURSIVE LStrip(_)
LStrip(s) == IF s # <<>> /\ Head(s) \in Whitespace THEN LStrip(Tail(s)) ELSE s

RECURSIVE RStrip(_)
RStrip(s) ==
    IF s # <<>> /\ s[Len(s)] \in Whitespace THEN RStrip(SubSeq(s, 1, Len(s) - 1)) ELSE s

strip(s) == RStrip(LStrip(s))

LowerChar(c) ==
    CASE c = "A" -> "a"
      [] c = "M" -> "m"
      [] c = "P" -> "p"
      [] c = "T" -> "t"
      [] OTHER -> c

lower(s) == [i \in 1..Len(s) |-> LowerChar(s[i])]

\* re.sub(r"[\/\\]", "-", value): every slash or backslash becomes one dash
SlashesToDash(s) == [i \in 1..Len(s) |-> IF s[i] \in {"/", "\\"} THEN "-" ELSE s[i]]

IsDashOrSpace(c) == c = "-" \/ c \in Whitespace

\* mutant: only runs of whitespace become an underscore, dashes are kept
RECURSIVE WhitespaceRunsToUnderscore(_)
WhitespaceRunsToUnderscore(s) ==
    IF s = <<>> THEN <<>>
    ELSE IF Head(s) \in Whitespace
         THEN IF Len(s) >= 2 /\ s[2] \in Whitespace
              THEN WhitespaceRunsToUnderscore(Tail(s))
              ELSE <<"_">> \o WhitespaceRunsToUnderscore(Tail(s))
         ELSE <<Head(s)>> \o WhitespaceRunsToUnderscore(Tail(s))

\* re.sub(r"[-\s]+", "_", value): every maximal run becomes one underscore
RECURSIVE RunsToUnderscore(_)
RunsToUnderscore(s) ==
    IF s = <<>> THEN <<>>
    ELSE IF IsDashOrSpace(Head(s))
         THEN IF Len(s) >= 2 /\ IsDashOrSpace(s[2])
              THEN RunsToUnderscore(Tail(s))
              ELSE <<"_">> \o RunsToUnderscore(Tail(s))
         ELSE <<Head(s)>> \o RunsToUnderscore(Tail(s))

normalize(value, allow_unicode) ==
    LET v1 == IF allow_unicode THEN NFKC(value) ELSE AsciiIgnore(NFKD(value))
        v2 == lower(strip(SelectSeq(v1, KeptByFirstSub)))
        v3 == SlashesToDash(v2)
    IN  RunsToUnderscore(v3)

(***************************************************************************)
(* flickr/utils.py: find_duplicates                                        *)
(***************************************************************************)
\* the inner loop: for j, subset in enumerate(files_sets)
RECURSIVE InnerLoop(_, _, _, _)
InnerLoop(files_sets, i, j, duplicates) ==
    IF j > Len(files_sets) THEN duplicates
    ELSE IF i = j THEN InnerLoop(files_sets, i, j + 1, duplicates)
    ELSE InnerLoop(files_sets, i, j + 1, duplicates \cup (files_sets[i] \cap files_sets[j]))

\* the outer loop: for i, target_files in enumerate(files_sets)
RECURSIVE OuterLoop(_, _, _)
OuterLoop(files_sets, i, duplicates) ==
    IF i > Len(files_sets) THEN duplicates
    ELSE OuterLoop(files_sets, i + 1, InnerLoop(files_sets, i, 1, duplicates))

\* mutant: the test i == j is missing, a set is intersected with itself
find_duplicates_with_self(files_sets) ==
    UNION {files_sets[i] \cap files_sets[j] : i \in 1..Len(files_sets), j \in 1..Len(files_sets)}

find_duplicates(files_sets) == OuterLoop(files_sets, 1, {})

(***************************************************************************)
(* flickr/handlers.py: _get_pics_filenames                                 *)
(*                                                                         *)
(* The pattern is ".*_(" + "|".join(pic_ids) + ")_.*" and the ids are      *)
(* inserted as they are.  Ids are built from literal characters, "." (any  *)
(* character but a newline) and "|" (alternation), so the group is the     *)
(* alternation of the pieces that "|" separates in the joined text.        *)
(***************************************************************************)
RECURSIVE JoinBar(_)
JoinBar(pic_ids) ==
    IF pic_ids = <<>> THEN <<>>
    ELSE IF Len(pic_ids) = 1 THEN pic_ids[1]
    ELSE pic_ids[1] \o <<"|">> \o JoinBar(Tail(pic_ids))

\* the alternatives of the group: the text split at every "|"
RECURSIVE Alternatives(_, _)
Alternatives(text, current) ==
    IF text = <<>> THEN {current}
    ELSE IF Head(text) = "|" THEN {current} \cup Alternatives(Tail(text), <<>>)
    ELSE Alternatives(Tail(text), Append(current, Head(text)))

AtomMatches(a, c) == IF a = "." THEN c # "\n" ELSE a = c

\* alt matches name[p+1 .. p+Len(alt)], between underscores at p and p+Len(alt)+1
GroupMatchesAt(alt, name, p) ==
    /\ p + Len(alt) + 1 <= Len(name)
    /\ name[p] = "_"
    /\ \A k \in 1..Len(alt) : AtomMatches(alt[k], name[p + k])
    /\ name[p + Len(alt) + 1] = "_"

\* pattern.match(name): anchored at the start, ".*" does not cross a newline
PatternMatch(pic_ids, name) ==
    \E p \in 1..Len(name) :
        /\ \A q \in 1..(p - 1) : name[q] # "\n"
        /\ \E alt \in Alternatives(JoinBar(pic_ids), <<>>) : GroupMatchesAt(alt, name, p)

get_pics_filenames(dir_content, pic_ids) ==
    LET Matches(name) == PatternMatch(pic_ids, name)
    IN  SelectSeq(dir_content, Matches)

(***************************************************************************)
(* The filesystem.  A directory is a set of entries [name, kind, data]:    *)
(* the data of a file is its text (a sequence of lines), the data of a     *)
(* directory is its set of entries.                                        *)
(***************************************************************************)
JSON_FILENAME == <<"a", "l", "b", "u", "m", "s", ".", "j", "s", "o", "n">>
DUPLICATES_FILENAME == <<"d", "u", "p", "l", "i", "c", "a", "t", "e", "s", ".", "t", "x", "t">>
ALBUMLESS_PICS_DIR == <<"_", "_", "n", "o", "_", "a", "l", "b", "u", "m", "_", "_">>

File(name, text) == [name |-> name, kind |-> "file", data |-> text]
Dir(name, entries) == [name |-> name, kind |-> "dir", data |-> entries]

Names(d) == {e.name : e \in d}
Entry(d, name) == CHOOSE e \in d : e.name = name
\* the directory d with the entry e created or replaced
Put(d, e) == {x \in d : x.name # e.name} \cup {e}

\* path.exists(path.join(root, name)); joining "" gives the root itself
PathExists(d, name) == name = <<>> \/ name \in Names(d)
\* path.isfile(path.join(root, name))
IsFile(d, name) == \E e \in d : e.name = name /\ e.kind = "file"

OutRoot(f, out) == IF out = "photos" THEN f.photos ELSE f.out
WithOutRoot(f, out, d) ==
    IF out = "photos" THEN [f EXCEPT !.photos = d] ELSE [f EXCEPT !.out = d]

endswith(name, suffix) ==
    /\ Len(name) >= Len(suffix)
    /\ SubSeq(name, Len(name) - Len(suffix) + 1, Len(name)) = suffix

\* os.listdir returns the names in arbitrary order
RECURSIVE Orderings(_)
Orderings(S) ==
    IF S = {} THEN {<<>>}
    ELSE UNION {{<<x>> \o s : s \in Orderings(S \ {x})} : x \in S}

\* _get_pics_filenames on os.listdir(self.photos_dir): filter keeps the order of
\* the listing, so the result is the matching names in any order
ListedPics(photos, pic_ids) ==
    Orderings({name \in Names(photos) : PatternMatch(pic_ids, name)})

(***************************************************************************)
(* flickr/handlers.py: FlickrAlbums.__init__                               *)
(***************************************************************************)
\* self.albums[title] = value on an insertion-ordered dict
DictSet(d, title, value) ==
    IF \E k \in 1..Len(d) : d[k].title = title
    THEN [k \in 1..Len(d) |-> IF d[k].title = title THEN value ELSE d[k]]
    ELSE Append(d, value)

RECURSIVE FlickrAlbumsInit(_, _)
FlickrAlbumsInit(raw_albums, d) ==
    IF raw_albums = <<>> THEN d
    ELSE LET album == Head(raw_albums)
             value == [title |-> album.title,
                       normalized_title |-> normalize(album.title, FALSE),
                       photos |-> album.photos]
         IN  FlickrAlbumsInit(Tail(raw_albums), DictSet(d, album.title, value))

(***************************************************************************)
(* flickr/handlers.py: _create_album                                       *)
(***************************************************************************)
\* mutant: the copy loop stops before the last filename
RECURSIVE CopyLoopStopsEarly(_, _, _, _)
CopyLoopStopsEarly(photos, album, pic_filenames, pics_num) ==
    IF Len(pic_filenames) <= 1
    THEN [album |-> album, pics_num |-> pics_num, error |-> "none"]
    ELSE LET src == Entry(photos, Head(pic_filenames))
         IN  IF src.kind = "dir"
             THEN [album |-> album, pics_num |-> pics_num, error |-> "IsADirectoryError"]
             ELSE CopyLoopStopsEarly(photos, Put(album, src), Tail(pic_filenames),
                                     pics_num + 1)

\* the copy loop; shutil.copy2 of a directory raises IsADirectoryError
RECURSIVE CopyLoop(_, _, _, _)
CopyLoop(photos, album, pic_filenames, pics_num) ==
    IF pic_filenames = <<>>
    THEN [album |-> album, pics_num |-> pics_num, error |-> "none"]
    ELSE LET src == Entry(photos, Head(pic_filenames))
         IN  IF src.kind = "dir"
             THEN [album |-> album, pics_num |-> pics_num, error |-> "IsADirectoryError"]
             ELSE CopyLoop(photos, Put(album, src), Tail(pic_filenames), pics_num + 1)

\* mutant: an existing album directory is not skipped, the photos are copied into it
create_album_merging(f, out, name, pic_filenames) ==
    LET root == OutRoot(f, out)
        old == IF name \in Names(root) /\ Entry(root, name).kind = "dir"
               THEN Entry(root, name).data ELSE {}
        made == WithOutRoot(f, out, Put(root, Dir(name, old)))
        copy == CopyLoop(made.photos, old, pic_filenames, 0)
    IN  [fs |-> WithOutRoot(made, out, Put(OutRoot(made, out), Dir(name, copy.album))),
         error |-> copy.error,
         log |-> IF copy.error = "none"
                 THEN <<[kind |-> "created", name |-> name, pics_num |-> copy.pics_num]>>
                 ELSE <<>>]

create_album(f, out, name, pic_filenames) ==
    IF PathExists(OutRoot(f, out), name)
    THEN [fs |-> f, error |-> "none",
          log |-> <<[kind |-> "exists", name |-> name, pics_num |-> 0]>>]
    ELSE LET made == WithOutRoot(f, out, Put(OutRoot(f, out), Dir(name, {})))
             copy == CopyLoop(made.photos, {}, pic_filenames, 0)
         IN  [fs |-> WithOutRoot(made, out, Put(OutRoot(made, out), Dir(name, copy.album))),
              error |-> copy.error,
              log |-> IF copy.error = "none"
                      THEN <<[kind |-> "created", name |-> name, pics_num |-> copy.pics_num]>>
                      ELSE <<>>]

(***************************************************************************)
(* The run: flickr-backup.py, FlickrAlbumsHandler.__init__ and make        *)
(***************************************************************************)
\* no call of a pure function is in progress
NoNormCall == [value |-> <<>>, allow_unicode |-> FALSE, done |-> FALSE, result |-> <<>>]
NoMatchCall == [dir_content |-> <<>>, pic_ids |-> <<>>, done |-> FALSE, result |-> <<>>]

P1 == <<"p", "_", "1", "_">>
Q2 == <<"q", "_", "2", "_">>
U0 == <<"u">>
D0 == <<"d", "_", "_">>

Photo(name) == File(name, <<>>)
Stale(name) == File(name, <<name>>)

PhotoDirs ==
    { {},
      {Photo(JSON_FILENAME), Photo(P1), Photo(Q2)},
      {Photo(P1), Photo(Q2), Photo(U0)},
      {Photo(U0), Photo(D0)} }

Titles == { <<"A">>, <<"a">>, <<"u">>, <<"!">>, ALBUMLESS_PICS_DIR }
IdLists == { <<>>, << <<"1">> >>, << <<"1">>, <<"2">> >> }
Records == [title : Titles, photos : IdLists]

Manifests ==
    {[status |-> "missing", albums |-> <<>>], [status |-> "malformed", albums |-> <<>>]}
    \cup {[status |-> "ok", albums |-> a] : a \in SeqsUpTo(Records, MaxAlbums)}

\* the output directory before the first run: absent, empty, holding an album
\* directory, or holding a __no_album__ directory
OutDirs ==
    { [out |-> {}, outExists |-> FALSE],
      [out |-> {}, outExists |-> TRUE],
      [out |-> {Dir(<<"a">>, {Stale(P1)})}, outExists |-> TRUE],
      [out |-> {Dir(ALBUMLESS_PICS_DIR, {})}, outExists |-> TRUE] }

Init ==
    /\ pc = "Load"
    /\ error = "none"
    /\ run = 1
    /\ manifest \in Manifests
    /\ \E photos \in PhotoDirs :
          \/ /\ args = [output_dir |-> "none"]
             /\ fs = [photos |-> photos, out |-> {}, outExists |-> FALSE]
          \/ /\ args = [output_dir |-> "out"]
             /\ \E o \in OutDirs :
                   fs = [photos |-> photos, out |-> o.out, outExists |-> o.outExists]
    /\ before = fs
    /\ albums = <<>>
    /\ output_dir = "unset"
    /\ idx = 1
    /\ pics_sets = <<>>
    /\ log = <<>>
    /\ summary = <<>>
    /\ normCall = NoNormCall
    /\ matchCall = NoMatchCall

Running(p) == pc = p /\ error = "none"

AfterLoop(d, i) == IF i > Len(d) THEN "Duplicates" ELSE "PerAlbumLoop"

\* mutant: the output directory is created before the manifest is opened
LoadMkdirFirst ==
    /\ Running("Load")
    /\ fs' = (IF args.output_dir # "none" THEN [fs EXCEPT !.outExists = TRUE] ELSE fs)
    /\ IF manifest.status # "ok"
       THEN /\ error' = (IF manifest.status = "missing" THEN "FileNotFoundError"
                                                         ELSE "JSONDecodeError")
            /\ UNCHANGED <<pc, albums, output_dir>>
       ELSE /\ albums' = FlickrAlbumsInit(manifest.albums, <<>>)
            /\ output_dir' = (IF args.output_dir # "none" THEN "out" ELSE "photos")
            /\ pc' = AfterLoop(albums', 1)
            /\ error' = "none"
    /\ UNCHANGED <<run, args, manifest, before, idx, pics_sets, log, summary,
                   normCall, matchCall>>

\* FlickrAlbumsHandler.__init__
Load ==
    /\ Running("Load")
    /\ IF manifest.status # "ok"
       THEN /\ error' = (IF manifest.status = "missing" THEN "FileNotFoundError"
                                                         ELSE "JSONDecodeError")
            /\ UNCHANGED <<pc, fs, albums, output_dir>>
       ELSE /\ albums' = FlickrAlbumsInit(manifest.albums, <<>>)
            /\ IF args.output_dir # "none"
               THEN /\ output_dir' = "out"
                    /\ fs' = [fs EXCEPT !.outExists = TRUE]
               ELSE /\ output_dir' = "photos"
                    /\ fs' = fs
            /\ pc' = AfterLoop(albums', 1)
            /\ error' = "none"
    /\ UNCHANGED <<run, args, manifest, before, idx, pics_sets, log, summary,
                   normCall, matchCall>>

\* make(): one iteration of the loop over self.albums.values()
ProcessAlbum ==
    /\ Running("PerAlbumLoop")
    /\ \E album_pics \in ListedPics(fs.photos, albums[idx].photos) :
          LET r == create_album(fs, output_dir, albums[idx].normalized_title, album_pics)
          IN  /\ fs' = r.fs
              /\ log' = log \o r.log
              /\ error' = r.error
              /\ IF r.error = "none"
                 THEN /\ pics_sets' = Append(pics_sets, Range(album_pics))
                      /\ idx' = idx + 1
                      /\ pc' = AfterLoop(albums, idx + 1)
                 ELSE UNCHANGED <<pics_sets, idx, pc>>
    /\ UNCHANGED <<run, args, manifest, before, albums, output_dir, summary,
                   normCall, matchCall>>

\* _duplicates: the text of duplicates.txt, one filename per line
duplicates_text(sets) == sorted(find_duplicates(sets))

\* make(): num_duplicates = self._duplicates(pics_sets)
Duplicates ==
    /\ Running("Duplicates")
    /\ LET text == duplicates_text(pics_sets)
       IN  /\ fs' = WithOutRoot(fs, output_dir,
                        Put(OutRoot(fs, output_dir), File(DUPLICATES_FILENAME, text)))
           /\ summary' = [num_duplicates |-> Len(text)]
    /\ pc' = "Albumless"
    /\ UNCHANGED <<error, run, args, manifest, before, albums, output_dir, idx,
                   pics_sets, log, normCall, matchCall>>

\* _albumless_pics: the regular files of photos_dir that do not end in .json
all_pics(photos) ==
    {name \in Names(photos) :
        IsFile(photos, name) /\ ~endswith(name, <<".", "j", "s", "o", "n">>)}

\* make(): set.union(*pics_sets), then self._albumless_pics(album_pics);
\* set.union without an argument raises TypeError
Albumless ==
    /\ Running("Albumless")
    /\ IF pics_sets = <<>>
       THEN /\ error' = "TypeError"
            /\ UNCHANGED <<pc, fs, log, summary>>
       ELSE LET album_pics == UNION Range(pics_sets)
                no_album_pics == all_pics(fs.photos) \ album_pics
            IN  /\ summary' = [num_duplicates |-> summary.num_duplicates,
                               num_photos |-> Cardinality(album_pics),
                               num_albumless_pics |-> Cardinality(no_album_pics)]
                /\ pc' = "Summary"
                /\ error' = "none"
                /\ IF no_album_pics # {}
                   THEN \E pic_filenames \in Orderings(no_album_pics) :
                           LET r == create_album(fs, output_dir, ALBUMLESS_PICS_DIR,
                                                 pic_filenames)
                           IN  fs' = r.fs /\ log' = log \o r.log
                   ELSE UNCHANGED <<fs, log>>
    /\ UNCHANGED <<run, args, manifest, before, albums, output_dir, idx, pics_sets,
                   normCall, matchCall>>

\* make(): the final logger.info lines
Summary ==
    /\ Running("Summary")
    /\ summary' = [num_albums |-> Len(albums),
                   num_photos |-> summary.num_photos,
                   num_duplicates |-> summary.num_duplicates,
                   num_albumless_pics |-> summary.num_albumless_pics]
    /\ pc' = "Done"
    /\ UNCHANGED <<error, run, args, manifest, fs, before, albums, output_dir, idx,
                   pics_sets, log, normCall, matchCall>>

\* the tool is started again with the same arguments on the files the last run left
Rerun ==
    /\ Running("Done")
    /\ run < MaxRuns
    /\ run' = run + 1
    /\ pc' = "Load"
    /\ before' = fs
    /\ albums' = <<>>
    /\ output_dir' = "unset"
    /\ idx' = 1
    /\ pics_sets' = <<>>
    /\ log' = <<>>
    /\ summary' = <<>>
    /\ UNCHANGED <<error, args, manifest, fs, normCall, matchCall>>

Next == Load \/ ProcessAlbum \/ Duplicates \/ Albumless \/ Summary \/ Rerun

Spec == Init /\ [][Next]_vars

(***************************************************************************)
(* Calls of the pure functions on inputs drawn from bounded sets           *)
(***************************************************************************)
MyTrip == <<"M", "y", " ", "T", "r", "i", "p", "/", "P", "a", "r", "i", "s", " ",
            "2", "0", "2", "0", "!">>

NormAlphabet == {"A", " ", "/", "-", "!", "eacute"}
NormInputs == {MyTrip} \cup SeqsUpTo(NormAlphabet, MaxTitleLen)

\* directory entries and photo ids the matcher is called with
MatchNames ==
    { <<"a", "_", "1", "_", "b">>, <<"_", "2", "_">>, <<"_", "x", "_">>, <<"_", "_">>,
      <<"_", "1", "x">>, <<"_", ".", "_">>, <<"1">>, <<"_", "1", "|", "_">> }
MatchIds == { <<"1">>, <<"2">>, <<".">>, <<"1", "|">>, <<>> }

Listings == {l \in SeqsUpTo(MatchNames, MaxListing) : NoRepeat(l)}

RunIdle ==
    /\ pc = "Idle"
    /\ error = "none"
    /\ run = 0
    /\ args = [output_dir |-> "none"]
    /\ manifest = [status |-> "missing", albums |-> <<>>]
    /\ fs = [photos |-> {}, out |-> {}, outExists |-> FALSE]
    /\ before = fs
    /\ albums = <<>>
    /\ output_dir = "unset"
    /\ idx = 1
    /\ pics_sets = <<>>
    /\ log = <<>>
    /\ summary = <<>>

InitNormalize ==
    /\ RunIdle
    /\ matchCall = NoMatchCall
    /\ \E v \in NormInputs, u \in BOOLEAN :
          normCall = [value |-> v, allow_unicode |-> u, done |-> FALSE, result |-> <<>>]

CallNormalize ==
    /\ ~normCall.done
    /\ normCall' = [normCall EXCEPT !.done = TRUE,
                                    !.result = normalize(normCall.value, normCall.allow_unicode)]
    /\ UNCHANGED <<runVars, matchCall>>

SpecNormalize == InitNormalize /\ [][CallNormalize]_vars

InitMatch ==
    /\ RunIdle
    /\ normCall = NoNormCall
    /\ \E l \in Listings, ids \in SeqsUpTo(MatchIds, MaxIds) :
          matchCall = [dir_content |-> l, pic_ids |-> ids, done |-> FALSE, result |-> <<>>]

CallMatch ==
    /\ ~matchCall.done
    /\ matchCall' = [matchCall EXCEPT !.done = TRUE,
                        !.result = get_pics_filenames(matchCall.dir_content, matchCall.pic_ids)]
    /\ UNCHANGED <<runVars, normCall>>

SpecMatch == InitMatch /\ [][CallMatch]_vars

(***************************************************************************)
(* Properties of normalize                                                 *)
(***************************************************************************)
MyTripCalled == normCall.done /\ normCall.value = MyTrip /\ ~normCall.allow_unicode

\* C9 (as stated): normalize("My Trip/Paris 2020!", allow_unicode=false) returns
\* "my_trip-paris_2020", the '/' between the words being rendered as '-'.
C9_SlashRenderedAsDash ==
    MyTripCalled =>
        normCall.result = <<"m", "y", "_", "t", "r", "i", "p", "-", "p", "a", "r", "i", "s",
                            "_", "2", "0", "2", "0">>

\* C9 (amended): normalize("My Trip/Paris 2020!", allow_unicode=false) returns
\* "my_trip_paris_2020": the '/' becomes '-' and then, like every run of '-' or
\* whitespace, a single '_'.
C9_SlashRenderedAsUnderscore ==
    MyTripCalled =>
        normCall.result = <<"m", "y", "_", "t", "r", "i", "p", "_", "p", "a", "r", "i", "s",
                            "_", "2", "0", "2", "0">>

C9_Witness == MyTripCalled /\ Len(normCall.result) = 18

(***************************************************************************)
(* Properties of the Photo Matcher                                         *)
(***************************************************************************)
\* name contains the literal text '_' + id + '_'
ContainsLiteral(name, id) ==
    \E p \in 1..Len(name) :
        /\ p + Len(id) + 1 <= Len(name)
        /\ SubSeq(name, p, p + Len(id) + 1) = <<"_">> \o id \o <<"_">>

\* C4: for an empty photo id list the Photo Matcher returns an empty match set
\* for every directory listing.
C4_EmptyIdsMatchNothing ==
    (matchCall.done /\ matchCall.pic_ids = <<>>) => matchCall.result = <<>>

\* C5: for a non-empty id list the Photo Matcher returns exactly the entries of
\* the listing, in their order, that contain the literal text '_<id>_' for some
\* id of the list.
C5_LiteralIdMatch ==
    (matchCall.done /\ matchCall.pic_ids # <<>>) =>
        LET Literal(name) == \E i \in 1..Len(matchCall.pic_ids) :
                                 ContainsLiteral(name, matchCall.pic_ids[i])
        IN  matchCall.result = SelectSeq(matchCall.dir_content, Literal)

(***************************************************************************)
(* Properties of the run                                                   *)
(***************************************************************************)
Root == OutRoot(fs, output_dir)
RootBefore == OutRoot(before, output_dir)
LoopFinished == pc \in {"Duplicates", "Albumless", "Summary", "Done"}
DuplicatesWritten == pc \in {"Albumless", "Summary", "Done"}
AlbumlessFinished == pc \in {"Summary", "Done"}

\* C1: _create_album called with a name that exists under the output directory
\* copies nothing, leaves every directory as it is and raises no error.
C1_ExistingAlbumUntouched ==
    [][ /\ ( /\ Running("PerAlbumLoop")
             /\ PathExists(Root, albums[idx].normalized_title) )
           => (fs' = fs /\ error' = "none")
        /\ ( /\ Running("Albumless")
             /\ pics_sets # <<>>
             /\ PathExists(Root, ALBUMLESS_PICS_DIR) )
           => (fs' = fs /\ error' = "none") ]_vars

\* the album directory "a" held other contents than the photos the album matched,
\* and _create_album was called for it
C1_Witness ==
    /\ LoopFinished
    /\ Dir(<<"a">>, {Stale(P1)}) \in fs.out
    /\ \E k \in 1..Len(pics_sets) :
          /\ log[k] = [kind |-> "exists", name |-> <<"a">>, pics_num |-> 0]
          /\ pics_sets[k] = {P1, Q2}

\* C2: once the Duplicates step has run, duplicates.txt exists under the output
\* directory and lists exactly the filenames that are in the retained sets of
\* two distinct positions, each once, in lexicographic order; for no set or a
\* single set find_duplicates is empty.
C2_DuplicatesReport ==
    DuplicatesWritten =>
        /\ IsFile(Root, DUPLICATES_FILENAME)
        /\ LET text == Entry(Root, DUPLICATES_FILENAME).data
               shared == {f \in UNION Range(pics_sets) :
                             \E i, j \in 1..Len(pics_sets) :
                                 i # j /\ f \in pics_sets[i] /\ f \in pics_sets[j]}
           IN  /\ Range(text) = shared
               /\ \A i, j \in 1..Len(text) : i < j => LexLess(text[i], text[j])
        /\ Len(pics_sets) <= 1 => find_duplicates(pics_sets) = {}

\* two albums share two photos: the report has two lines
C2_Witness ==
    /\ pc = "Done"
    /\ Len(pics_sets) >= 2
    /\ IsFile(Root, DUPLICATES_FILENAME)
    /\ Entry(Root, DUPLICATES_FILENAME).data = <<P1, Q2>>

\* the photo files of photos_dir, as they were before the run, that the ids of
\* no album record of the manifest match
UnmatchedBefore ==
    {f \in all_pics(before.photos) :
        \A k \in 1..Len(manifest.albums) : ~PatternMatch(manifest.albums[k].photos, f)}

\* C3: after the Albumless step of a run that started without a __no_album__
\* directory, __no_album__ exists if and only if some photo file of photos_dir
\* is matched by no album, and then holds exactly those files.
C3_AlbumlessExact ==
    (AlbumlessFinished /\ ~PathExists(RootBefore, ALBUMLESS_PICS_DIR)) =>
        /\ summary.num_albumless_pics = Cardinality(UnmatchedBefore)
        /\ PathExists(Root, ALBUMLESS_PICS_DIR) <=> UnmatchedBefore # {}
        /\ UnmatchedBefore # {} =>
               Names(Entry(Root, ALBUMLESS_PICS_DIR).data) = UnmatchedBefore

\* C6: a run aborted by a missing or malformed manifest has changed nothing on
\* the filesystem.
C6_ManifestErrorBeforeMutation ==
    error \in {"FileNotFoundError", "JSONDecodeError"} => (fs = before /\ pc = "Load")

\* the manifest is missing and the output directory that was asked for is absent
C6_Witness ==
    /\ error = "FileNotFoundError"
    /\ args.output_dir = "out"
    /\ ~fs.outExists

FileSystemErrors == {"IsADirectoryError"}

\* C7: a run whose manifest was loaded and in which no filesystem operation
\* failed is not aborted on its way from Load to Summary.
C7_LoadedRunNotAborted ==
    (pc # "Load" /\ error \notin FileSystemErrors) => error = "none"

\* C8: the loop runs once per album record of the manifest, in manifest order,
\* and retains one matched-filename set per record.
C8_OneIterationPerRecord ==
    LoopFinished =>
        /\ Len(pics_sets) = Len(manifest.albums)
        /\ \A k \in 1..Len(manifest.albums) :
              /\ k <= Len(log)
              /\ log[k].name = normalize(manifest.albums[k].title, FALSE)
              /\ k <= Len(pics_sets)
              /\ pics_sets[k] \cap all_pics(before.photos) =
                     {f \in all_pics(before.photos) :
                         PatternMatch(manifest.albums[k].photos, f)}

\* the photo file f has a copy in the directory of an album that matched it or
\* in __no_album__
HasCopy(f) ==
    \E e \in Root :
        /\ e.kind = "dir"
        /\ f \in Names(e.data)
        /\ \/ e.name = ALBUMLESS_PICS_DIR
           \/ \E k \in 1..Len(albums) :
                 albums[k].normalized_title = e.name /\ f \in pics_sets[k]

NoAlbumDirBefore == \A e \in RootBefore : e.kind # "dir"

\* C10 (as stated): after a run that reaches Summary and started with no album
\* directory under the output directory, every photo file of photos_dir has a
\* copy under the output directory, whatever the manifest.
C10_NoPhotoLeftBehind ==
    (pc = "Done" /\ NoAlbumDirBefore) =>
        \A f \in all_pics(before.photos) : HasCopy(f)

\* the normalized titles of the album records are non-empty, pairwise different
\* and different from __no_album__, and none names an entry of the output
\* directory as it was before the run
SlugsFree ==
    LET slug(k) == normalize(manifest.albums[k].title, FALSE)
    IN  /\ ~PathExists(RootBefore, ALBUMLESS_PICS_DIR)
        /\ \A k \in 1..Len(manifest.albums) :
              /\ slug(k) # <<>>
              /\ slug(k) # ALBUMLESS_PICS_DIR
              /\ ~PathExists(RootBefore, slug(k))
              /\ \A j \in 1..Len(manifest.albums) : j # k => slug(j) # slug(k)

\* C10 (amended): the same, for the manifests whose album records have
\* non-empty, pairwise different normalized titles, none of them __no_album__
\* and none of them the name of an entry the output directory already has.
C10_NoPhotoLeftBehindFreeSlugs ==
    (pc = "Done" /\ SlugsFree) =>
        \A f \in all_pics(before.photos) : HasCopy(f)

\* two albums with different slugs, one photo copied to an album and one to
\* __no_album__
C10_Witness ==
    /\ pc = "Done"
    /\ SlugsFree
    /\ Len(manifest.albums) = 2
    /\ \E e \in Root : e.kind = "dir" /\ e.name = <<"a">> /\ P1 \in Names(e.data)
    /\ \E e \in Root : e.kind = "dir" /\ e.name = ALBUMLESS_PICS_DIR /\ U0 \in Names(e.data)

====
